---- MODULE Spec2Model ----
(***************************************************************************)
(* A model of the break reminder `breaks` (src/src/main.rs): the           *)
(* Working/Idle state machine of State::update, the Break rules, the timer *)
(* handler that drives the ticks and the "Done" button that acknowledges a *)
(* prompt.                                                                 *)
(*                                                                         *)
(* Time.  An Instant is an integer number of time units since the clock's  *)
(* epoch and a Duration is a natural number of the same units.  A handler  *)
(* reads the clock each time the code does: no reading is before the one   *)
(* before it, and the last is at most MaxDrift after the first.            *)
(* Instant::duration_since and Instant::elapsed saturate at zero.          *)
(*                                                                         *)
(* Environment.  `last_input` is the instant of the user's last keyboard   *)
(* or mouse input, so that the idle sample of a tick is now - last_input;  *)
(* am_in_meet() answers each call on its own; the standard output takes    *)
(* what is written or is a device that is full; the speech backend exists  *)
(* or not.  The operators of a handler give the set of the ways it may go, *)
(* one for each run of answers and readings.  Every timer event is the     *)
(* widget's own timer (the token always matches), and a panic in a handler *)
(* ends the program.                                                       *)
(*                                                                         *)
(* Four specifications: Spec is the program; SpecLive is the program with  *)
(* a user who stays at work, under fairness; SpecBreak is the program with *)
(* one Break rule, probed with work times in minutes, up to its first      *)
(* timer event; SpecCodec is the codec of Durations (src/src/hours.rs).    *)
(***************************************************************************)
EXTENDS Integers, Naturals, Sequences, FiniteSets, TLC

(* ------------------------------ bounds -------------------------------- *)

\* The instant at which the program starts (the clock's epoch is 0).
StartInstant == 2

\* No tick happens after this instant.
MaxTime == 10

\* The longest time between two timer events.
MaxStep == 3

\* The largest work time probed in the specification of one Break rule.
MaxWork == 125

\* No tick of the specification with fairness happens after this instant.
LiveMaxTime == 31

\* The longest time between two timer events in the specification with fairness.
LivePeriod == 1

\* The largest Duration, in seconds, serialized in the codec specification.
MaxSeconds == 7500

\* The longest a handler runs: its last reading of the clock is at most this
\* much after its first.
MaxDrift == 1

VARIABLES
    loaded,         \* what Config::load did: "Ok", "Err" or "Panic"
    config,         \* State.config: the thresholds (immutable after load)
    now,            \* the clock as the last timer handler read it first
    clock,          \* the last reading of the clock
    last_input,     \* environment: instant of the last user input
    in_meeting,     \* environment: the answers am_in_meet() gave during the
                    \* last timer handler, in call order
    idle_failed,    \* environment: the idle-time query of the last tick failed
    stdout,         \* environment: the standard output, its device and buffer
    ret,            \* what State::update returned last: "Ok", "Err" ("-": not run)
    prompted,       \* history: the messages the last handler gave to State::prompt
    accepted,       \* history: the rules the last handler accepted (lines 229-231), in order
    issued,         \* history: the instants at which end-of-day prompts (eod)
                    \* and break prompts (brk) were issued, oldest first
    commands,       \* the druid commands the last handler submitted
    tts,            \* State.tts: None, or Some of what the backend was asked to
                    \* speak by the last handler
    status,         \* State.status
    screen_time,    \* State.screen_time
    breaks,         \* State.breaks
    am_prompting,   \* State.am_prompting
    last_prompt,    \* State.last_prompt
    status_report,  \* State.status_report
    latest_update,  \* State.latest_update
    am_emphasizing, \* State.am_emphasizing
    worktime,       \* specification of one Break rule: the work time probed last
    fired,          \* specification of one Break rule: what check returned for it
    codec           \* codec specification: a Duration (d, -1 for none), its
                    \* text if there is one, what the text parses to and how
                    \* that is written

vars == <<loaded, config, now, clock, last_input, in_meeting, idle_failed, stdout,
          ret, prompted, accepted, issued, commands, tts, status, screen_time, breaks,
          am_prompting, last_prompt, status_report, latest_update, am_emphasizing,
          worktime, fired, codec>>

(* ------------------------------ values -------------------------------- *)

\* Option<String>: None is the empty tuple, Some(s) the one-element tuple.
None == << >>

Some(s) == << s >>

\* A String is a sequence of pieces; format! concatenates them.
Str(s) == << s >>

\* Pretty::pretty: the rendering of a Duration inside a message.
pretty(d) == Str(ToString(d))

WorkingSince(i) == [kind |-> "WorkingSince", at |-> i]

IdleSince(i) == [kind |-> "IdleSince", at |-> i]

\* Instant::duration_since(earlier): zero when `earlier` is later than self.
duration_since(later, earlier) == IF later >= earlier THEN later - earlier ELSE 0

\* Instant::elapsed() read at instant n.
elapsed(i, n) == duration_since(n, i)

(* --------------------------- hours (codec) ---------------------------- *)
(* A str is the sequence of its characters. Durations here are in seconds. *)

Digits == << "0", "1", "2", "3", "4", "5", "6", "7", "8", "9" >>

RECURSIVE Decimal(_)
\* `{n}` in format!: the decimal digits of n.
Decimal(n) ==
    IF n < 10 THEN << Digits[n + 1] >>
    ELSE Decimal(n \div 10) \o << Digits[(n % 10) + 1] >>

\* `{n:02}` in format!: at least two digits, padded with zeros.
Decimal02(n) == IF n < 10 THEN << "0" >> \o Decimal(n) ELSE Decimal(n)

\* tostring(x)
tostring(x) ==
    LET secs == x
        total_minutes == secs \div 60
        hours == total_minutes \div 60
        minutes == total_minutes - hours * 60
    IN  IF hours = 0 /\ minutes = 0
            THEN << "0", " ", "m", "i", "n", "u", "t", "e", "s" >>
        ELSE IF hours = 1 /\ minutes = 0
            THEN Decimal(hours) \o << " ", "h", "o", "u", "r" >>
        ELSE IF minutes = 0
            THEN Decimal(hours) \o << " ", "h", "o", "u", "r", "s" >>
        ELSE IF hours = 0 /\ minutes = 1
            THEN Decimal(minutes) \o << " ", "m", "i", "n", "u", "t", "e" >>
        ELSE IF hours = 0
            THEN Decimal(minutes) \o << " ", "m", "i", "n", "u", "t", "e", "s" >>
        ELSE Decimal(hours) \o << ":" >> \o Decimal02(minutes)

\* str::strip_suffix: Some(the rest) when v ends with suffix, else None.
strip_suffix(v, suffix) ==
    IF /\ Len(v) >= Len(suffix)
       /\ SubSeq(v, Len(v) - Len(suffix) + 1, Len(v)) = suffix
    THEN << SubSeq(v, 1, Len(v) - Len(suffix)) >>
    ELSE << >>

\* Option::or_else
or_else(a, b) == IF a # << >> THEN a ELSE b

\* str::split_once(":"): Some((before, after)) of the first colon, else None.
split_once(v) ==
    IF \E k \in 1..Len(v) : v[k] = ":"
    THEN LET k == CHOOSE j \in 1..Len(v) :
                      v[j] = ":" /\ \A i \in 1..(j - 1) : v[i] # ":"
         IN  << << SubSeq(v, 1, k - 1), SubSeq(v, k + 1, Len(v)) >> >>
    ELSE << >>

\* The characters with the Unicode property White_Space. A character that a
\* TLA+ string cannot hold is written by its code point.
WhiteSpace ==
    { "\t", "\n", "U+000B", "\f", "\r", " ", "U+0085", "U+00A0", "U+1680",
      "U+2000", "U+2001", "U+2002", "U+2003", "U+2004", "U+2005", "U+2006",
      "U+2007", "U+2008", "U+2009", "U+200A", "U+2028", "U+2029", "U+202F",
      "U+205F", "U+3000" }

RECURSIVE trim(_)
\* str::trim: without the white space at both ends.
trim(v) ==
    IF v = << >> THEN v
    ELSE IF v[1] \in WhiteSpace THEN trim(Tail(v))
    ELSE IF v[Len(v)] \in WhiteSpace THEN trim(SubSeq(v, 1, Len(v) - 1))
    ELSE v

IsDigit(ch) == \E j \in 1..10 : Digits[j] = ch

\* The value of a digit character.
DigitValue(ch) == (CHOOSE k \in 1..10 : Digits[k] = ch) - 1

RECURSIVE Number(_)
\* The number a string of digits writes.
Number(v) ==
    IF v = << >> THEN 0
    ELSE Number(SubSeq(v, 1, Len(v) - 1)) * 10 + DigitValue(v[Len(v)])

RECURSIVE Pow(_, _)
Pow(b, k) == IF k = 0 THEN 1 ELSE b * Pow(b, k - 1)

\* char::to_ascii_lowercase, for the letters a number is written with.
Lower(ch) ==
    CASE ch = "I" -> "i" [] ch = "N" -> "n" [] ch = "F" -> "f" [] ch = "T" -> "t"
      [] ch = "Y" -> "y" [] ch = "A" -> "a" [] ch = "E" -> "e" [] OTHER -> ch

\* An f64 as parsed: num / 10^scale with its sign, or an infinity, or NaN.
Float(kind, neg, num, scale) == [kind |-> kind, neg |-> neg, num |-> num, scale |-> scale]

NotANumber == [ok |-> FALSE, val |-> Float("nan", FALSE, 0, 0)]

\* str::parse::<f64>(): Sign? ('inf' | 'infinity' | 'nan' | Number), where
\* Number is (Digit+ | Digit+ '.' Digit* | Digit* '.' Digit+) ('e' Sign? Digit+)?,
\* letters in either case. The value is kept as the decimal that is written
\* (numerators stay below 2^31 here).
parse(v) ==
    LET signed == v # << >> /\ v[1] \in {"+", "-"}
        neg == v # << >> /\ v[1] = "-"
        u == IF signed THEN Tail(v) ELSE v
        low == [k \in 1..Len(u) |-> Lower(u[k])]
        es == {k \in 1..Len(low) : low[k] = "e"}
        epos == IF es = {} THEN Len(low) + 1
                ELSE CHOOSE k \in es : \A j \in es : k <= j
        mant == SubSeq(low, 1, epos - 1)
        expo == SubSeq(low, epos + 1, Len(low))
        esigned == expo # << >> /\ expo[1] \in {"+", "-"}
        edigits == IF esigned THEN Tail(expo) ELSE expo
        ds == {k \in 1..Len(mant) : mant[k] = "."}
        dpos == IF ds = {} THEN Len(mant) + 1
                ELSE CHOOSE k \in ds : \A j \in ds : k <= j
        ip == SubSeq(mant, 1, dpos - 1)
        fp == SubSeq(mant, dpos + 1, Len(mant))
        e == IF es = {} THEN 0
             ELSE IF expo[1] = "-" THEN 0 - Number(edigits) ELSE Number(edigits)
        shift == e - Len(fp)
    IN  IF low \in { << "i", "n", "f" >>, << "i", "n", "f", "i", "n", "i", "t", "y" >> }
            THEN [ok |-> TRUE, val |-> Float("inf", neg, 0, 0)]
        ELSE IF low = << "n", "a", "n" >>
            THEN [ok |-> TRUE, val |-> Float("nan", neg, 0, 0)]
        ELSE IF \/ ip \o fp = << >>
                \/ \E k \in 1..Len(ip) : ~IsDigit(ip[k])
                \/ \E k \in 1..Len(fp) : ~IsDigit(fp[k])
                \/ es # {} /\ edigits = << >>
                \/ \E k \in 1..Len(edigits) : ~IsDigit(edigits[k])
            THEN NotANumber
        ELSE IF shift >= 0
            THEN [ok |-> TRUE,
                  val |-> Float("num", neg, Number(ip \o fp) * Pow(10, shift), 0)]
        ELSE [ok |-> TRUE, val |-> Float("num", neg, Number(ip \o fp), 0 - shift)]

\* The f64 of a whole number n.
Whole(n) == Float("num", FALSE, n, 0)

\* strip_suffix("h").or_else(strip_suffix("hours")).or_else(strip_suffix("hour"))
StripHours(v) ==
    or_else(or_else(strip_suffix(v, << "h" >>),
                    strip_suffix(v, << "h", "o", "u", "r", "s" >>)),
            strip_suffix(v, << "h", "o", "u", "r" >>))

\* The minute suffixes without the singular.
StripMinutes_no_singular(v) ==
    or_else(strip_suffix(v, << "m" >>),
            strip_suffix(v, << "m", "i", "n", "u", "t", "e", "s" >>))

\* strip_suffix("m").or_else(strip_suffix("minutes")).or_else(strip_suffix("minute"))
StripMinutes(v) ==
    or_else(or_else(strip_suffix(v, << "m" >>),
                    strip_suffix(v, << "m", "i", "n", "u", "t", "e", "s" >>)),
            strip_suffix(v, << "m", "i", "n", "u", "t", "e" >>))

\* A Duration of `secs` whole seconds, with or without a part of a second.
Parsed(secs, subsec) == [ret |-> "Ok", secs |-> secs, subsec |-> subsec]

\* Err(())
ParseError == [ret |-> "Err", secs |-> 0, subsec |-> FALSE]

\* Duration::from_secs_f64 panics: the value is negative, infinite or NaN.
ParsePanic == [ret |-> "Panic", secs |-> 0, subsec |-> FALSE]

\* The f64 holds the decimal exactly: the decimal is a multiple of a power of 2.
Exact(x) == x.num % Pow(5, x.scale) = 0

\* Duration::from_secs_f64((hours * 60.0 + minutes) * 60.0): the Durations the
\* call may return. The arithmetic is exact when both f64 are. When one is
\* not and the exact value is a whole number of seconds S, the f64 is a hair
\* below or above S. Where from_secs_f64 truncates, a value below S gives a
\* Duration just below S (or a panic below zero). Where it rounds to the
\* nanosecond, the value gives S as long as it is within half a nanosecond
\* of S: the four roundings of line 138 and of the two parses, 2^-53 each,
\* keep it so while the terms stay below 2^51 * 0.5e-9 = 1125899 seconds;
\* beyond that it can also give the nanosecond before or after S.
from_hours_minutes(hours, minutes) ==
    IF hours.kind # "num" \/ minutes.kind # "num" THEN {ParsePanic}
    ELSE
        LET scale == IF hours.scale >= minutes.scale THEN hours.scale ELSE minutes.scale
            den == Pow(10, scale)
            habs == hours.num * Pow(10, scale - hours.scale)
            mabs == minutes.num * Pow(10, scale - minutes.scale)
            h == IF hours.neg THEN 0 - habs ELSE habs
            m == IF minutes.neg THEN 0 - mabs ELSE mabs
            n == (h * 60 + m) * 60
            far == ((habs * 60 + mabs) * 60) \div den > 1125899
        IN  IF n < 0 THEN {ParsePanic}
            ELSE IF n % den # 0 THEN {Parsed(n \div den, TRUE)}
            ELSE IF Exact(hours) /\ Exact(minutes) THEN {Parsed(n \div den, FALSE)}
            ELSE {Parsed(n \div den, FALSE),
                  IF n = 0 THEN ParsePanic ELSE Parsed((n \div den) - 1, TRUE)}
                 \cup (IF far THEN {Parsed(n \div den, TRUE)} ELSE {})

\* parseme(v): the results the call may have.
parseme(v) ==
    IF split_once(v) # << >> THEN
        LET h == parse(trim(split_once(v)[1][1]))
            m == parse(trim(split_once(v)[1][2]))
        IN  IF ~h.ok \/ ~m.ok THEN {ParseError} ELSE from_hours_minutes(h.val, m.val)
    ELSE IF StripHours(v) # << >> THEN
        LET h == parse(trim(StripHours(v)[1]))
        IN  IF ~h.ok THEN {ParseError} ELSE from_hours_minutes(h.val, Whole(0))
    ELSE IF StripMinutes(v) # << >> THEN
        LET m == parse(trim(StripMinutes(v)[1]))
        IN  IF ~m.ok THEN {ParseError} ELSE from_hours_minutes(Whole(0), m.val)
    ELSE {ParseError}

\* Texts of durations as a configuration file may hold them: the ones of the
\* tests of hours.rs, and some that are no duration.
Written ==
    { << "1", ":", "0", "0" >>, << "2", ":", "0", "0" >>,
      << "1", " ", "h", "o", "u", "r" >>, << "2", " ", "h", "o", "u", "r", "s" >>,
      << "2", " ", "m", "i", "n", "u", "t", "e", "s" >>,
      << "2", "h" >>, << "9", "0", "m" >>, << " ", "1", " ", ":", " ", "3", "0" >>,
      << "2" >>, << "x", ":", "0", "0" >>, << "h" >>, << ":" >>, << >>,
      << "1", ".", "5", "h" >>, << "1", ":", "3", "0", ".", "5" >>,
      << "+", "2", "h" >>, << "1", "e", "2", "m" >>, << ".", "5", " ", "h", "o", "u", "r" >>,
      << "2", "\t", "h", "o", "u", "r", "s" >>, << "U+00A0", "1", ":", "0", "0", "\n" >>,
      << "0", ".", "1", "h" >>, << "-", "0", ".", "1", ":", "6" >>, << "-", "0", "h" >>,
      << "-", "1", "h" >>, << "1", ":", "-", "5" >>, << "I", "n", "f", "h" >>,
      << "n", "a", "n", "m" >>, << "1", ".", "h" >>, << ".", "m" >>, << "1", "e", "m" >>,
      << "2", "0", "4", "8", ".", "3", "h" >>,
      << "1", ":", "1", "3", "1", "0", "7", "6", ".", "7" >> }

(* ------------------------------ Break --------------------------------- *)

\* Break::new
NewBreak(prompt, after) == [prompt |-> prompt, after |-> after, last_done |-> 0]

\* check with `>=` for `>`.
check_at_threshold(b, w) == [ret |-> w >= b.after + b.last_done, self |-> b]

\* check that forgets what was done: `worktime > self.after`.
check_ignores_last_done(b, w) == [ret |-> w > b.after, self |-> b]

\* Break::check(&mut self, worktime): the returned bool, and self after the call.
check(b, w) == [ret |-> w > b.after + b.last_done, self |-> b]

\* An acceptance that advances last_done by the threshold instead.
accept_by_threshold(b, w) == [b EXCEPT !.last_done = @ + b.after]

\* The acceptance of a break at work time w (b.last_done = this_work + screen_time).
accept(b, w) == [b EXCEPT !.last_done = w]

(* ------------------------------ Config -------------------------------- *)

\* A Config with two break rules; every threshold is a Duration.
Config(mi, wd, dr, js, gc, mb, we, ls, a1, a2) ==
    [max_idle_time_while_working |-> mi, workday |-> wd, day_resets_after |-> dr,
     just_started |-> js, good_chunk_of_work |-> gc,
     minimum_time_between_breaks |-> mb, when_to_emphasize_break |-> we,
     when_to_lock_screen |-> ls,
     breaks |-> << NewBreak("exersize", a1), NewBreak("standing desk", a2) >>]

\* Config::default, in seconds: what Config::load returns without a file.
DefaultConfig ==
    [max_idle_time_while_working |-> 60 * 10, workday |-> 60 * 60 * 8,
     day_resets_after |-> 60 * 60 * 7, just_started |-> 60 * 6,
     good_chunk_of_work |-> 60 * 30, minimum_time_between_breaks |-> 60 * 5,
     when_to_emphasize_break |-> 60 * 2, when_to_lock_screen |-> 60 * 10,
     breaks |-> << NewBreak("Time for a 7-minute exersize", 60 * 60 * 3),
                   NewBreak("Switch to standing desk", 60 * 60 * 4 + 60) >>]

\* A file with the ordering of the default thresholds in small numbers:
\* emphasis < debounce < just_started < max idle < good chunk < the two
\* breaks < day reset < workday.
ScaledDefault == Config(4, 9, 8, 3, 5, 2, 1, 4, 6, 7)

\* A file without any [[breaks]] and one with three of them.
NoBreaks == [Config(1, 4, 2, 2, 3, 0, 1, 1, 1, 2) EXCEPT !.breaks = << >>]

ThreeBreaks ==
    [Config(1, 4, 2, 2, 3, 1, 1, 1, 1, 2) EXCEPT
        !.breaks = << NewBreak("exersize", 1), NewBreak("standing desk", 2),
                      NewBreak("walk", 3) >>]

\* A file with thresholds so small that each is crossed before MaxTime.
Small == Config(1, 4, 2, 2, 3, 1, 1, 2, 1, 2)

\* The configurations Config::load returns here: the default one, and files
\* with the default's ordering, with no and with three breaks, and with small
\* thresholds: the break debounce below, at zero and above just_started, and
\* the emphasis after one time unit or after two.
Configs ==
    { DefaultConfig, ScaledDefault, NoBreaks, ThreeBreaks, Small }
        \cup { Config(mi, 4, 2, 2, 3, mb, 1, 2, 1, 2) : mi \in {1, 2}, mb \in {0, 1, 3} }
        \cup { Config(mi, 4, 2, 2, 3, 1, 2, 2, 1, 2) : mi \in {1, 2} }

(* ---------------------------- environment ----------------------------- *)

\* What a handler meets outside the State while it runs: `clock` is the last
\* reading of the clock and `limit` the latest reading the handler can get;
\* `meets` are the answers am_in_meet() gave so far, in call order; `stdout`
\* is the standard output; `prompted` is a history of the messages given to
\* State::prompt and `accepted` one of the rules accepted in lines 229-231.
Env(n, out) ==
    [clock |-> n, limit |-> n + MaxDrift, meets |-> << >>, stdout |-> out,
     prompted |-> << >>, accepted |-> << >>]

\* The standard output: a device that takes what is written to it or, when
\* full (as /dev/full), fails every write; and a buffer that holds text or not.
Stdout(full) == [full |-> full, pending |-> FALSE]

\* am_in_meet(): the answers the call may give, each with the world after it.
am_in_meet(e) ==
    { [ret |-> a, env |-> [e EXCEPT !.meets = Append(@, a)]] : a \in BOOLEAN }

\* Instant::now(): the readings the call may give; the clock does not go back.
Instant_now(e) ==
    { [ret |-> n, env |-> [e EXCEPT !.clock = n]] : n \in e.clock..e.limit }

\* print!: the text waits in the buffer of stdout (it holds no newline, and
\* far less than the buffer can hold).
print(e) == [e EXCEPT !.stdout.pending = TRUE]

\* std::io::stdout().flush(): Ok with nothing to write; with text in the buffer
\* the write succeeds, or fails and leaves the text where it is.
flush(e) ==
    IF ~e.stdout.pending THEN [ret |-> "Ok", env |-> e]
    ELSE IF e.stdout.full THEN [ret |-> "Err", env |-> e]
    ELSE [ret |-> "Ok", env |-> [e EXCEPT !.stdout.pending = FALSE]]

(* ------------------------------ State --------------------------------- *)

\* State::new(config): the clock is read at n1 for status and at n2 for
\* last_prompt; tts is None when no speech backend could be made, else Some
\* of what the backend was asked to speak during the last handler.
New(c, n1, n2, backend) ==
    [tts |-> IF backend THEN Some(<< >>) ELSE None,
     config |-> c, status |-> WorkingSince(n1), screen_time |-> 0,
     last_prompt |-> n2, breaks |-> c.breaks, am_prompting |-> None,
     status_report |-> Str(""), latest_update |-> Str(""),
     am_emphasizing |-> FALSE]

\* State::say(msg): the backend, if there is one, speaks the text.
say(self, msg) ==
    IF self.tts = None THEN self
    ELSE [self EXCEPT !.tts = Some(Append(self.tts[1], msg))]

\* State::prompt(msg)
prompt(self, e, msg) ==
    [self |-> [say(self, msg) EXCEPT !.am_prompting = Some(msg)],
     env |-> [e EXCEPT !.prompted = Append(@, msg)]]

\* State::announce()
announce(self) == IF self.am_prompting # None THEN say(self, self.am_prompting[1]) ELSE self

\* The debounce of the breaks as long as the cooldown of the end-of-day prompt.
TooSoon_just_started(c, prompt_gap) == prompt_gap <= c.just_started

\* No debounce at all.
TooSoon_never(c, prompt_gap) == FALSE

\* The debounce off by one: a gap one short of the minimum passes.
TooSoon_off_by_one(c, prompt_gap) == prompt_gap + 1 < c.minimum_time_between_breaks

\* `prompt_gap < self.config.minimum_time_between_breaks`
TooSoon(c, prompt_gap) == prompt_gap < c.minimum_time_between_breaks

\* A loop step that keeps the first accepted prompt instead of the last.
BreakStep_first_wins(acc, i, total, n) ==
    LET self == acc.self
        c == check(self.breaks[i], total)
        b == c.self
        checked == [self EXCEPT !.breaks[i] = b]
        prompt_gap == duration_since(n, self.last_prompt)
        min_gap == self.config.minimum_time_between_breaks
    IN  IF ~c.ret THEN { [acc EXCEPT !.self = checked] }
        ELSE IF self.am_prompting # None THEN
            { [acc EXCEPT !.self = [checked EXCEPT !.status_report =
                Str("Postponing ") \o Str(b.prompt) \o Str(", see above.")]] }
        ELSE UNION {
            IF m.ret THEN
                { [acc EXCEPT !.env = m.env,
                              !.self = [checked EXCEPT !.status_report =
                    Str("Postponing ") \o Str(b.prompt) \o Str(" while you meet.")]] }
            ELSE IF TooSoon(self.config, prompt_gap) THEN
                { [acc EXCEPT !.env = m.env,
                              !.self = [checked EXCEPT !.status_report =
                    Str("Postponing ") \o Str(b.prompt) \o Str(" for ")
                        \o pretty(min_gap - prompt_gap) \o Str(".")]] }
            ELSE
                { [prompt |-> IF acc.prompt # None THEN acc.prompt
                               ELSE Some(Str(b.prompt)),
                   self |-> [checked EXCEPT !.last_prompt = r.ret,
                                            !.breaks[i] = accept(b, total)],
                   env |-> [r.env EXCEPT !.accepted = Append(@, i)]]
                    : r \in Instant_now(m.env) }
            : m \in am_in_meet(acc.env) }

\* A loop step that accepts a rule without noting the instant of the prompt.
BreakStep_keeps_last_prompt(acc, i, total, n) ==
    LET self == acc.self
        c == check(self.breaks[i], total)
        b == c.self
        checked == [self EXCEPT !.breaks[i] = b]
        prompt_gap == duration_since(n, self.last_prompt)
        min_gap == self.config.minimum_time_between_breaks
    IN  IF ~c.ret THEN { [acc EXCEPT !.self = checked] }
        ELSE IF self.am_prompting # None THEN
            { [acc EXCEPT !.self = [checked EXCEPT !.status_report =
                Str("Postponing ") \o Str(b.prompt) \o Str(", see above.")]] }
        ELSE UNION {
            IF m.ret THEN
                { [acc EXCEPT !.env = m.env,
                              !.self = [checked EXCEPT !.status_report =
                    Str("Postponing ") \o Str(b.prompt) \o Str(" while you meet.")]] }
            ELSE IF TooSoon(self.config, prompt_gap) THEN
                { [acc EXCEPT !.env = m.env,
                              !.self = [checked EXCEPT !.status_report =
                    Str("Postponing ") \o Str(b.prompt) \o Str(" for ")
                        \o pretty(min_gap - prompt_gap) \o Str(".")]] }
            ELSE
                { [prompt |-> Some(Str(b.prompt)),
                   self |-> [checked EXCEPT !.breaks[i] = accept(b, total)],
                   env |-> [r.env EXCEPT !.accepted = Append(@, i)]]
                    : r \in Instant_now(m.env) }
            : m \in am_in_meet(acc.env) }

\* One pass of `for b in self.breaks.iter_mut()` for the break at index i, at
\* the instant n read in line 186: the ways it may go. acc.self is the State
\* so far, acc.prompt the local `prompt`, acc.env the world so far.
BreakStep(acc, i, total, n) ==
    LET self == acc.self
        c == check(self.breaks[i], total)
        b == c.self
        checked == [self EXCEPT !.breaks[i] = b]
        prompt_gap == duration_since(n, self.last_prompt)
        min_gap == self.config.minimum_time_between_breaks
    IN  IF ~c.ret THEN { [acc EXCEPT !.self = checked] }
        ELSE IF self.am_prompting # None THEN
            { [acc EXCEPT !.self = [checked EXCEPT !.status_report =
                Str("Postponing ") \o Str(b.prompt) \o Str(", see above.")]] }
        ELSE UNION {
            IF m.ret THEN
                { [acc EXCEPT !.env = m.env,
                              !.self = [checked EXCEPT !.status_report =
                    Str("Postponing ") \o Str(b.prompt) \o Str(" while you meet.")]] }
            ELSE IF TooSoon(self.config, prompt_gap) THEN
                { [acc EXCEPT !.env = m.env,
                              !.self = [checked EXCEPT !.status_report =
                    Str("Postponing ") \o Str(b.prompt) \o Str(" for ")
                        \o pretty(min_gap - prompt_gap) \o Str(".")]] }
            ELSE
                { [prompt |-> Some(Str(b.prompt)),
                   self |-> [checked EXCEPT !.last_prompt = r.ret,
                                            !.breaks[i] = accept(b, total)],
                   env |-> [r.env EXCEPT !.accepted = Append(@, i)]]
                    : r \in Instant_now(m.env) }
            : m \in am_in_meet(acc.env) }

RECURSIVE BreakLoop(_, _, _, _)
\* The whole `for` loop, from index i on.
BreakLoop(acc, i, total, n) ==
    IF i > Len(acc.self.breaks) THEN {acc}
    ELSE UNION { BreakLoop(a, i + 1, total, n) : a \in BreakStep(acc, i, total, n) }

\* The break evaluation of State::update: the loop, then `if let Some(p) = prompt`.
EvaluateBreaks(self, total, n, e) ==
    { IF acc.prompt # None THEN prompt(acc.self, acc.env, acc.prompt[1])
      ELSE [self |-> acc.self, env |-> acc.env]
      : acc \in BreakLoop([prompt |-> None, self |-> self, env |-> e], 1, total, n) }

\* The idle threshold with `>=` for `>`.
StoppedWorking_at_threshold(c, t, e) ==
    IF t >= c.max_idle_time_while_working
    THEN { [ret |-> ~m.ret, env |-> m.env] : m \in am_in_meet(e) }
    ELSE { [ret |-> FALSE, env |-> e] }

\* `t > config.max_idle_time_while_working && !am_in_meet()`: the meeting is
\* asked about only beyond the threshold.
StoppedWorking(c, t, e) ==
    IF t > c.max_idle_time_while_working
    THEN { [ret |-> ~m.ret, env |-> m.env] : m \in am_in_meet(e) }
    ELSE { [ret |-> FALSE, env |-> e] }

\* The end-of-day prompt held back by the cooldown of the breaks.
EndOfDay_break_cooldown(self, total, e) ==
    IF total > self.config.workday
    THEN { [ret |-> elapsed(self.last_prompt, r.ret)
                        > self.config.minimum_time_between_breaks,
            env |-> r.env] : r \in Instant_now(e) }
    ELSE { [ret |-> FALSE, env |-> e] }

\* `this_work + self.screen_time > config.workday
\*    && self.last_prompt.elapsed() > config.just_started`: elapsed() reads the
\* clock, and only beyond the workday.
EndOfDay(self, total, e) ==
    IF total > self.config.workday
    THEN { [ret |-> elapsed(self.last_prompt, r.ret) > self.config.just_started,
            env |-> r.env] : r \in Instant_now(e) }
    ELSE { [ret |-> FALSE, env |-> e] }

\* Break evaluation inside the stretch instead of outside it.
BreakTime_inside(self, this_work, e) ==
    IF /\ this_work >= self.config.just_started
       /\ this_work <= self.config.good_chunk_of_work
       /\ self.am_prompting = None
    THEN { [ret |-> ~m.ret, env |-> m.env] : m \in am_in_meet(e) }
    ELSE { [ret |-> FALSE, env |-> e] }

\* Break evaluation whatever the length of the open segment.
BreakTime_any_time(self, this_work, e) ==
    IF self.am_prompting = None
    THEN { [ret |-> ~m.ret, env |-> m.env] : m \in am_in_meet(e) }
    ELSE { [ret |-> FALSE, env |-> e] }

\* `(this_work < config.just_started || this_work > config.good_chunk_of_work)
\*    && self.am_prompting.is_none() && !am_in_meet()`
BreakTime(self, this_work, e) ==
    IF /\ \/ this_work < self.config.just_started
          \/ this_work > self.config.good_chunk_of_work
       /\ self.am_prompting = None
    THEN { [ret |-> ~m.ret, env |-> m.env] : m \in am_in_meet(e) }
    ELSE { [ret |-> FALSE, env |-> e] }

\* Lines 239-243: latest_update, then the flush whose error `?` returns.
WorkedFor(x, total) ==
    [ret |-> flush(x.env).ret,
     self |-> [x.self EXCEPT !.latest_update =
                    Str("You've been working for ") \o pretty(total)],
     env |-> flush(x.env).env]

\* State::update, the arm WorkingSince(start), with idle sample t and the
\* instant n of line 186: the ways it may go.
UpdateWorking(self, t, n, e) ==
    LET c == self.config
        start == self.status.at
        start_idle == n - t
        st == self.screen_time + duration_since(start_idle, start)
        this_work == duration_since(n, start)
        total == this_work + self.screen_time
    IN  UNION {
            IF sw.ret THEN
                { [ret |-> "Ok",
                   self |-> [self EXCEPT !.screen_time = st,
                                         !.status = IdleSince(start_idle),
                                         !.status_report = Str("After working ")
                                            \o pretty(st) \o Str(" you are now AFK!")],
                   env |-> sw.env] }
            ELSE UNION {
                IF eod.ret THEN
                    LET p == prompt(self, eod.env, Str("End of day after ") \o pretty(total))
                    IN  { WorkedFor([p EXCEPT !.self.last_prompt = n], total) }
                ELSE UNION {
                    IF bt.ret
                    THEN { WorkedFor(x, total)
                            : x \in EvaluateBreaks(self, total, n, bt.env) }
                    ELSE { WorkedFor([self |-> self, env |-> bt.env], total) }
                    : bt \in BreakTime(self, this_work, eod.env) }
                : eod \in EndOfDay(self, total, sw.env) }
            : sw \in StoppedWorking(c, t, e) }

\* A day reset that forgets the breaks.
ResetBreaks_forgotten(bs) == bs

\* The day reset: last_done of every break back to zero.
ResetBreaks(bs) == [i \in DOMAIN bs |-> [bs[i] EXCEPT !.last_done = 0]]

\* `start_idle.duration_since(start) > config.max_idle_time_while_working`
Resumed(c, start_idle, start) ==
    duration_since(start_idle, start) > c.max_idle_time_while_working

\* `t > config.day_resets_after && self.screen_time > Duration::from_secs(0)`
NewDay(self, t) == t > self.config.day_resets_after /\ self.screen_time > 0

\* An Idle arm that tests for the new day before it tests for resumed work.
UpdateIdle_reset_first(self, t, n, e) ==
    LET c == self.config
        start == self.status.at
        start_idle == n - t
    IN  IF NewDay(self, t) THEN
            { [ret |-> "Ok",
               self |-> [self EXCEPT
                            !.status_report = Str("I think it is a new day.  Resetting."),
                            !.screen_time = 0,
                            !.breaks = ResetBreaks(self.breaks)],
               env |-> e] }
        ELSE IF Resumed(c, start_idle, start) THEN
            { [ret |-> "Ok",
               self |-> [self EXCEPT !.status = WorkingSince(start_idle),
                                     !.status_report = Str("You resumed working after a ")
                                        \o pretty(duration_since(start_idle, start))
                                        \o Str(" break.")],
               env |-> e] }
        ELSE
            { [ret |-> flush(e).ret,
               self |-> [self EXCEPT !.latest_update =
                            Str("You've been idle for ") \o pretty(t)],
               env |-> flush(e).env] }

\* State::update, the arm IdleSince(start): the ways it may go.
UpdateIdle(self, t, n, e) ==
    LET c == self.config
        start == self.status.at
        start_idle == n - t
    IN  IF Resumed(c, start_idle, start) THEN
            { [ret |-> "Ok",
               self |-> [self EXCEPT !.status = WorkingSince(start_idle),
                                     !.status_report = Str("You resumed working after a ")
                                        \o pretty(duration_since(start_idle, start))
                                        \o Str(" break.")],
               env |-> e] }
        ELSE IF NewDay(self, t) THEN
            { [ret |-> "Ok",
               self |-> [self EXCEPT
                            !.status_report = Str("I think it is a new day.  Resetting."),
                            !.screen_time = 0,
                            !.breaks = ResetBreaks(self.breaks)],
               env |-> e] }
        ELSE
            { [ret |-> flush(e).ret,
               self |-> [self EXCEPT !.latest_update =
                            Str("You've been idle for ") \o pretty(t)],
               env |-> flush(e).env] }

\* An update that takes a failed idle query for an idle time of zero.
update_failure_as_zero(self, idle, n, e) ==
    LET t == IF idle.ok THEN idle.t ELSE 0
    IN  IF self.status.kind = "WorkingSince"
        THEN UpdateWorking(self, t, n, e)
        ELSE UpdateIdle(self, t, n, e)

\* State::update: the ways it may go, each with what it returns, the State
\* and the world after it. idle is the Result of idle_time() (`?` returns the
\* error before anything is touched) and n the instant read in line 186.
update(self, idle, n, e) ==
    IF ~idle.ok THEN { [ret |-> "Err", self |-> self, env |-> e] }
    ELSE IF self.status.kind = "WorkingSince"
         THEN UpdateWorking(self, idle.t, n, e)
         ELSE UpdateIdle(self, idle.t, n, e)

(* ----------------------------- handlers ------------------------------- *)

\* TimerWidget::event on Event::Timer, lines 366-375, after data.update()
\* returned Ok: elapsed() and Instant::now() read the clock again.
AfterUpdate(self, e) ==
    IF self.am_prompting = None
    THEN { [self |-> self, env |-> e, commands |-> << >>] }
    ELSE UNION {
        IF elapsed(self.last_prompt, r.ret) > self.config.when_to_emphasize_break
        THEN { [self |-> IF self.am_emphasizing
                         THEN announce([self EXCEPT !.last_prompt = r2.ret])
                         ELSE [self EXCEPT !.last_prompt = r2.ret],
                env |-> r2.env,
                commands |-> << "SHOW_WINDOW", "HIDE_OTHERS" >>]
               : r2 \in Instant_now(r.env) }
        ELSE { [self |-> IF self.am_emphasizing THEN announce(self) ELSE self,
                env |-> r.env,
                commands |-> << "SHOW_WINDOW" >>] }
        : r \in Instant_now(e) }

\* TimerWidget::event on Event::Timer: data.update().unwrap() panics on Err;
\* then print! and a flush whose failure is dropped (`.ok()`).
TimerHandler(self, idle, n, e) ==
    UNION {
        IF u.ret = "Err"
        THEN { [ret |-> "Err", self |-> u.self, env |-> u.env, commands |-> << >>] }
        ELSE { [ret |-> "Ok"] @@ a
                : a \in AfterUpdate(u.self, flush(print(u.env)).env) }
        : u \in update(self, idle, n, e) }

\* A "Done" that reads the prompt without taking it.
DoneHandler_keeps_prompt(self) ==
    LET s1 == [self EXCEPT !.am_emphasizing = FALSE]
    IN  IF s1.am_prompting = None THEN [self |-> s1, commands |-> << >>]
        ELSE [self |-> [s1 EXCEPT !.status_report = Str("Well done with the ")
                                        \o s1.am_prompting[1] \o Str("!")],
              commands |-> << "SHOW_ALL" >>]

\* The on_click closure of the "Done" button.
DoneHandler(self) ==
    LET s1 == [self EXCEPT !.am_emphasizing = FALSE]
    IN  IF s1.am_prompting = None THEN [self |-> s1, commands |-> << >>]
        ELSE [self |-> [s1 EXCEPT !.am_prompting = None,
                                  !.status_report = Str("Well done with the ")
                                        \o s1.am_prompting[1] \o Str("!")],
              commands |-> << "SHOW_ALL" >>]

(* --------------------------- the program ------------------------------ *)

\* Nothing serialized or parsed yet: there is no text (an empty text is one).
NoCodec == [d |-> -1, text |-> None, parsed |-> << >>, again |-> << >>]

\* The variables that hold the State, and the others.
stateVars == <<tts, config, status, screen_time, breaks, am_prompting, last_prompt,
               status_report, latest_update, am_emphasizing>>

otherVars == <<loaded, now, clock, last_input, in_meeting, idle_failed, stdout,
               ret, prompted, accepted, issued, commands>>

\* The State as one value; the speech backend, if any, has nothing to speak yet.
Self ==
    [tts |-> IF tts = None THEN None ELSE Some(<< >>),
     config |-> config, status |-> status, screen_time |-> screen_time,
     last_prompt |-> last_prompt, breaks |-> breaks, am_prompting |-> am_prompting,
     status_report |-> status_report, latest_update |-> latest_update,
     am_emphasizing |-> am_emphasizing]

\* The State after a handler.
Store(s) ==
    /\ tts' = s.tts
    /\ config' = s.config
    /\ status' = s.status
    /\ screen_time' = s.screen_time
    /\ last_prompt' = s.last_prompt
    /\ breaks' = s.breaks
    /\ am_prompting' = s.am_prompting
    /\ status_report' = s.status_report
    /\ latest_update' = s.latest_update
    /\ am_emphasizing' = s.am_emphasizing

\* The world after a handler that started at instant n.
StoreEnv(e, n) ==
    /\ now' = n
    /\ clock' = e.clock
    /\ in_meeting' = e.meets
    /\ stdout' = e.stdout
    /\ prompted' = e.prompted
    /\ accepted' = e.accepted

\* The program runs once the configuration is loaded and until a handler panics.
Running == loaded = "Ok" /\ ret # "Err"

\* What Config::load may do with a file: each Duration of the file goes
\* through parseme, whose Err makes load return Err and whose panic is a panic
\* of the program.
LoadResults == { r.ret : r \in UNION { parseme(v) : v \in Written } }

\* State::new(c) at launch: the clock reads StartInstant and then n2, the
\* speech backend could be made or not, the standard output is a full device
\* or not. Nothing has run yet.
Launched(c, n2, backend, full) ==
    /\ now = StartInstant
    /\ clock = n2
    /\ in_meeting = << >>
    /\ idle_failed = FALSE
    /\ stdout = Stdout(full)
    /\ ret = "-"
    /\ prompted = << >>
    /\ accepted = << >>
    /\ issued = [eod |-> << >>, brk |-> << >>]
    /\ commands = << >>
    /\ LET s == New(c, StartInstant, n2, backend)
       IN  /\ tts = s.tts
           /\ config = s.config
           /\ status = s.status
           /\ screen_time = s.screen_time
           /\ last_prompt = s.last_prompt
           /\ breaks = s.breaks
           /\ am_prompting = s.am_prompting
           /\ status_report = s.status_report
           /\ latest_update = s.latest_update
           /\ am_emphasizing = s.am_emphasizing
    /\ worktime = 0
    /\ fired = << >>
    /\ codec = NoCodec

\* The launches explored: every configuration with a speech backend, an
\* output that works and one reading of the clock in State::new; and a few
\* configurations with every combination of the three.
Launches ==
    { << c, StartInstant, TRUE, FALSE >> : c \in Configs }
        \cup { << c, StartInstant + d, backend, full >> :
                    c \in {ScaledDefault, Small}, d \in 0..MaxDrift,
                    backend \in BOOLEAN, full \in BOOLEAN }

\* main: State::load() at instant StartInstant. With a configuration loaded the
\* State is made and the window launched; the user's last input is at or before
\* the start. When Config::load fails, main returns its error (or the program
\* has panicked) and there is no State: the variables of the State hold the
\* one of Default for State and no handler ever runs.
Init ==
    /\ loaded \in LoadResults
    /\ last_input \in 0..StartInstant
    /\ IF loaded = "Ok"
       THEN \E l \in Launches : Launched(l[1], l[2], l[3], l[4])
       ELSE Launched(DefaultConfig, StartInstant, FALSE, FALSE)

\* An end-of-day prompt, as against a break's prompt.
IsEndOfDay(msg) == msg[1] = "End of day after "

\* The history of prompts after a handler that started at instant n and gave
\* the messages `msgs` to State::prompt.
Issue(h, msgs, n) ==
    [eod |-> IF \E k \in DOMAIN msgs : IsEndOfDay(msgs[k])
             THEN Append(h.eod, n) ELSE h.eod,
     brk |-> IF \E k \in DOMAIN msgs : ~IsEndOfDay(msgs[k])
             THEN Append(h.brk, n) ELSE h.brk]

\* The timer fires dt after the last reading of the clock (the handler asks
\* for the next timer event when it ends, line 376); the user's last input is
\* where it was or somewhere since; the idle query answers ok or fails (a
\* failed query does not sample the input devices). The handler goes one of
\* the ways the world allows.
Timer ==
    /\ Running
    /\ \E dt \in 1..MaxStep, ok \in BOOLEAN :
          /\ clock + dt <= MaxTime
          /\ \E li \in {last_input} \cup (now..(clock + dt)) :
                /\ ~ok => li = last_input
                /\ last_input' = li
                /\ idle_failed' = ~ok
                /\ \E r \in TimerHandler(Self, [ok |-> ok, t |-> (clock + dt) - li],
                                         clock + dt, Env(clock + dt, stdout)) :
                       /\ ret' = r.ret
                       /\ commands' = r.commands
                       /\ issued' = Issue(issued, r.env.prompted, clock + dt)
                       /\ StoreEnv(r.env, clock + dt)
                       /\ Store(r.self)
    /\ UNCHANGED <<loaded, worktime, fired, codec>>

\* The user clicks "Done".
Done ==
    /\ Running
    /\ LET r == DoneHandler(Self)
       IN  /\ commands' = r.commands
           /\ Store(r.self)
    /\ prompted' = << >>
    /\ accepted' = << >>
    /\ UNCHANGED <<loaded, now, clock, last_input, in_meeting, idle_failed, stdout,
                   ret, issued, worktime, fired, codec>>

Next == Timer \/ Done

Spec == Init /\ [][Next]_vars

(* ------------------ the user at work, with fairness ------------------- *)

\* Configurations with the ordering of Config::default (main.rs:65-91):
\* when_to_emphasize_break < minimum_time_between_breaks < just_started
\* < max_idle_time_while_working = when_to_lock_screen < good_chunk_of_work
\* < the first break's threshold < the second's < day_resets_after < workday,
\* with minimum_time_between_breaks below just_started by more than a tick
\* period.
LiveConfigs ==
    { Config(js + 1, js + 6, js + 5, js, js + 2, mb, 1, js + 1, js + 3, js + 4) :
        js \in {LivePeriod + 4}, mb \in {2, 3} }

\* main with a configuration of LiveConfigs; the user is at the keyboard.
InitLive ==
    /\ loaded = "Ok"
    /\ last_input = StartInstant
    /\ \E c \in LiveConfigs, d \in 0..MaxDrift, backend \in BOOLEAN :
          Launched(c, StartInstant + d, backend, FALSE)

\* The ways of a timer handler in which no am_in_meet() answers yes.
AtWork(rs) ==
    { r \in rs : \A k \in DOMAIN r.env.meets : ~r.env.meets[k] }

\* A timer event while the user works: the idle query answers, with an idle
\* time of at most max_idle_time_while_working, there is no meeting, and the
\* prompt of the tick before, if any, has been acknowledged.
LiveTick ==
    /\ Running
    /\ am_prompting = None
    /\ \E dt \in 1..LivePeriod :
          /\ clock + dt <= LiveMaxTime
          /\ \E li \in {last_input} \cup (now..(clock + dt)) :
                /\ (clock + dt) - li <= config.max_idle_time_while_working
                /\ last_input' = li
                /\ idle_failed' = FALSE
                /\ \E r \in AtWork(TimerHandler(Self, [ok |-> TRUE, t |-> (clock + dt) - li],
                                                clock + dt, Env(clock + dt, stdout))) :
                       /\ ret' = r.ret
                       /\ commands' = r.commands
                       /\ issued' = Issue(issued, r.env.prompted, clock + dt)
                       /\ StoreEnv(r.env, clock + dt)
                       /\ Store(r.self)
    /\ UNCHANGED <<loaded, worktime, fired, codec>>

\* The user acknowledges the pending prompt.
LiveDone == am_prompting # None /\ Done

NextLive == LiveTick \/ LiveDone

\* The timer handler requests the next timer event (main.rs:373), so ticks keep
\* occurring; the user acknowledges every prompt.
SpecLive == InitLive /\ [][NextLive]_vars /\ WF_vars(LiveTick) /\ WF_vars(LiveDone)

(* ------------------------- one Break rule, probed --------------------- *)

\* The thresholds of the break probed in the specification of one Break rule; 60 is
\* the hour of the debounce example, in minutes.
AfterValues == {0, 1, 2, 60}

\* The configuration of the specification of one Break rule: the thresholds of
\* Config::default (main.rs:65-91) in minutes, with one break of threshold a.
BreakConfig(a) ==
    [Config(10, 480, 420, 6, 30, 5, 2, 10, a, a)
        EXCEPT !.breaks = << NewBreak("break", a) >>]

\* The program launched with one break, nothing done yet.
InitBreak ==
    /\ loaded = "Ok"
    /\ last_input = StartInstant
    /\ \E a \in AfterValues : Launched(BreakConfig(a), StartInstant, TRUE, FALSE)

\* b.check(w) for some work time w, at launch or after the timer event (a
\* probe forgets the one before it, so one between two events is enough).
Probe ==
    /\ fired = << >>
    /\ \E w \in 0..MaxWork :
          LET c == check(breaks[1], w)
          IN  /\ worktime' = w
              /\ fired' = << c.ret >>
              /\ breaks' = [breaks EXCEPT ![1] = c.self]
    /\ UNCHANGED <<otherVars, tts, config, status, screen_time, am_prompting,
                   last_prompt, status_report, latest_update, am_emphasizing, codec>>

\* The first timer event, at the instant at which the accumulated work time
\* is the probed one, with the user at the keyboard: the handler accepts the
\* break, postpones it or leaves it, as the State and the world have it.
Accept ==
    /\ Running
    /\ fired # << >>
    /\ now = StartInstant
    /\ LET n == status.at + (worktime - screen_time)
       IN  /\ n > clock
           /\ last_input' = n
           /\ idle_failed' = FALSE
           /\ \E r \in TimerHandler(Self, [ok |-> TRUE, t |-> 0], n, Env(n, stdout)) :
                  /\ ret' = r.ret
                  /\ commands' = r.commands
                  /\ issued' = Issue(issued, r.env.prompted, n)
                  /\ StoreEnv(r.env, n)
                  /\ Store(r.self)
    /\ fired' = << >>
    /\ UNCHANGED <<loaded, worktime, codec>>

NextBreak == Probe \/ Accept \/ Done

SpecBreak == InitBreak /\ [][NextBreak]_vars

(* ------------------------ the codec on its own ------------------------ *)

\* The scheduler is not running; nothing is serialized yet.
InitCodec ==
    /\ loaded = "Ok"
    /\ last_input = StartInstant
    /\ Launched(Config(2, 4, 2, 2, 3, 1, 1, 2, 1, 2), StartInstant, TRUE, FALSE)

\* Serialize for Serde<Duration>: a Duration of d whole seconds is written.
Serialize ==
    /\ codec = NoCodec
    /\ \E d \in 0..MaxSeconds :
          codec' = [d |-> d, text |-> Some(tostring(d)), parsed |-> << >>, again |-> << >>]
    /\ UNCHANGED <<otherVars, stateVars, worktime, fired>>

\* A text is read from a file.
Read ==
    /\ codec = NoCodec
    /\ \E v \in Written :
          codec' = [d |-> -1, text |-> Some(v), parsed |-> << >>, again |-> << >>]
    /\ UNCHANGED <<otherVars, stateVars, worktime, fired>>

\* Deserialize for Serde<Duration>: visit_str parses the text.
Deserialize ==
    /\ codec.text # None
    /\ codec.parsed = << >>
    /\ \E r \in parseme(codec.text[1]) : codec' = [codec EXCEPT !.parsed = << r >>]
    /\ UNCHANGED <<otherVars, stateVars, worktime, fired>>

\* The parsed Duration is written again.
Reserialize ==
    /\ codec.parsed # << >>
    /\ codec.parsed[1].ret = "Ok"
    /\ codec.again = << >>
    /\ codec' = [codec EXCEPT !.again = << tostring(codec.parsed[1].secs) >>]
    /\ UNCHANGED <<otherVars, stateVars, worktime, fired>>

NextCodec == Serialize \/ Read \/ Deserialize \/ Reserialize

SpecCodec == InitCodec /\ [][NextCodec]_vars

(* ------------------------------ claims -------------------------------- *)

\* C1: check(worktime) returns true exactly when worktime is strictly greater
\* than after + last_done (false at worktime = after + last_done), and the call
\* leaves the break, last_done included, as it was.
C1_CheckStrictlyGreater ==
    [][fired' # << >> =>
          /\ fired' = << worktime' > breaks[1].after + breaks[1].last_done >>
          /\ breaks' = breaks]_vars

\* C1 witness: a break accepted before is probed exactly at after + last_done
\* and does not fire.
C1_Witness ==
    /\ breaks[1].last_done > 0
    /\ worktime = breaks[1].after + breaks[1].last_done
    /\ fired = << FALSE >>

\* C2 as stated: with after = 60 (minutes) and last_done = 0, check(30) is
\* false and check(61) is true; once accepted at 61 (last_done = 61), check(90)
\* is false and check(121) is true.
C2_Original ==
    \A b \in BOOLEAN :
        (breaks[1].after = 60 /\ fired = << b >>) =>
            /\ ((breaks[1].last_done = 0 /\ worktime = 30) => ~b)
            /\ ((breaks[1].last_done = 0 /\ worktime = 61) => b)
            /\ ((breaks[1].last_done = 61 /\ worktime = 90) => ~b)
            /\ ((breaks[1].last_done = 61 /\ worktime = 121) => b)

\* C2 amended: with after = 60 and last_done = 0, check(30) is false and
\* check(61) is true; once accepted at 61, check(90) is false, check(121) is
\* false (121 = after + last_done) and check(122) is true.
C2_DebounceExample ==
    \A b \in BOOLEAN :
        (breaks[1].after = 60 /\ fired = << b >>) =>
            /\ ((breaks[1].last_done = 0 /\ worktime = 30) => ~b)
            /\ ((breaks[1].last_done = 0 /\ worktime = 61) => b)
            /\ ((breaks[1].last_done = 61 /\ worktime = 90) => ~b)
            /\ ((breaks[1].last_done = 61 /\ worktime = 121) => ~b)
            /\ ((breaks[1].last_done = 61 /\ worktime = 122) => b)

\* C2 witness: the break of one hour, accepted at 61, is probed at 121 and
\* does not fire.
C2_Witness ==
    /\ breaks[1].after = 60
    /\ breaks[1].last_done = 61
    /\ worktime = 121
    /\ fired = << FALSE >>

(* The claims about the scheduler are about steps of Spec. A step of the timer *)
(* handler is one with now' > now, and the idle sample of that tick is         *)
(* now' - last_input'; a click on "Done" leaves the clock alone.               *)

\* The last_done of every break, in rule order.
LastDone(bs) == [i \in DOMAIN bs |-> bs[i].last_done]

\* The last handler issued a break's prompt: a break was accepted and surfaced.
PromptedBreak == \E k \in DOMAIN prompted : ~IsEndOfDay(prompted[k])

\* The last handler issued an end-of-day prompt.
PromptedEndOfDay == \E k \in DOMAIN prompted : IsEndOfDay(prompted[k])

\* am_in_meet() answered yes to some call of the last timer handler.
InMeeting == \E k \in DOMAIN in_meeting : in_meeting[k]

\* The tick from this state to the next samples the input devices.
Sampled == now' > now /\ ~idle_failed'

\* The tick from this state to the next asks am_in_meet() in line 189, so that
\* the answer to line 210, when that line asks, is the second one.
AsksIdle ==
    /\ ~idle_failed'
    /\ status.kind = "WorkingSince"
    /\ now' - last_input' > config.max_idle_time_while_working

GateIdx == IF AsksIdle THEN 2 ELSE 1

\* C3: at a tick in WorkingSince(start) with idle sample t, the status becomes
\* IdleSince(now - t) exactly when t > max_idle_time_while_working and
\* am_in_meet(), asked then, answers no; then screen_time grows by
\* (now - t) - start, clamped at zero, no prompt is issued and no last_done
\* changes. When am_in_meet() answers yes at any call of the tick, the status
\* stays WorkingSince(start) and screen_time stays, whatever t is.
C3_IdleTransition ==
    [][(Sampled /\ status.kind = "WorkingSince") =>
          LET t == now' - last_input'
              start == status.at
              stops == t > config.max_idle_time_while_working /\ ~in_meeting'[1]
          IN  /\ (status' = IdleSince(now' - t)) <=> stops
              /\ stops =>
                    /\ screen_time' = screen_time
                          + (IF now' - t > start THEN (now' - t) - start ELSE 0)
                    /\ prompted' = << >>
                    /\ am_prompting' = am_prompting
                    /\ LastDone(breaks') = LastDone(breaks)
              /\ InMeeting' => status' = status /\ screen_time' = screen_time]_vars

\* C3 witness: the tick just run found the user idle for more than the
\* threshold and closed a work segment of positive length.
C3_Witness ==
    /\ ret = "Ok"
    /\ status = IdleSince(last_input)
    /\ now - last_input > config.max_idle_time_while_working
    /\ in_meeting = << FALSE >>
    /\ screen_time > 0
    /\ status_report[1] = "After working "

\* C4 as stated: at any tick in IdleSince whose idle sample exceeds
\* day_resets_after while screen_time > 0, screen_time and every last_done are
\* reset to 0.
C4_Original ==
    [][(/\ Sampled /\ status.kind = "IdleSince"
        /\ now' - last_input' > config.day_resets_after
        /\ screen_time > 0) =>
          /\ screen_time' = 0
          /\ \A i \in DOMAIN breaks' : breaks'[i].last_done = 0]_vars

\* C4 amended: at a tick in IdleSince(start) whose idle sample t exceeds
\* day_resets_after while screen_time > 0, and whose idle start now - t is not
\* more than max_idle_time_while_working after start, screen_time and every
\* last_done are reset to 0.
C4_DayReset ==
    [][(/\ Sampled /\ status.kind = "IdleSince"
        /\ now' - last_input' > config.day_resets_after
        /\ screen_time > 0
        /\ last_input' - status.at <= config.max_idle_time_while_working) =>
          /\ screen_time' = 0
          /\ \A i \in DOMAIN breaks' : breaks'[i].last_done = 0]_vars

\* C4 witness: a day reset has just run, after a break had been accepted.
C4_Witness ==
    /\ status.kind = "IdleSince"
    /\ status_report = Str("I think it is a new day.  Resetting.")
    /\ issued.brk # << >>
    /\ screen_time = 0
    /\ \A i \in DOMAIN breaks : breaks[i].last_done = 0
\* C5: two successive end-of-day prompts are more than just_started apart.
C5_EndOfDayCooldown ==
    \A k \in 1..(Len(issued.eod) - 1) :
        issued.eod[k + 1] - issued.eod[k] > config.just_started


\* C6 as stated: a break's last_done never decreases, and whenever it changes
\* its new value is the accumulated work time (open segment + screen_time) of
\* the tick at which that break fired and was accepted.
C6_Original ==
    [][\A i \in DOMAIN breaks :
          /\ breaks'[i].last_done >= breaks[i].last_done
          /\ breaks'[i].last_done # breaks[i].last_done =>
                /\ now' > now
                /\ status.kind = "WorkingSince"
                /\ breaks'[i].last_done = duration_since(now', status.at) + screen_time
                /\ check(breaks[i], breaks'[i].last_done).ret]_vars

\* C6 amended: a break's last_done never decreases except at a day reset, which
\* sets it to zero; whenever it changes otherwise, its new value is the
\* accumulated work time of the tick at which that break fired and was accepted.
C6_LastDone ==
    [][\A i \in DOMAIN breaks :
          breaks'[i].last_done # breaks[i].last_done =>
              \/ /\ now' > now
                 /\ status.kind = "IdleSince"
                 /\ status_report' = Str("I think it is a new day.  Resetting.")
                 /\ screen_time' = 0
                 /\ breaks'[i].last_done = 0
              \/ /\ now' > now
                 /\ status.kind = "WorkingSince"
                 /\ breaks'[i].last_done > breaks[i].last_done
                 /\ breaks'[i].last_done = duration_since(now', status.at) + screen_time
                 /\ check(breaks[i], breaks'[i].last_done).ret
                 /\ PromptedBreak']_vars

\* C6 witness: the second break rule was accepted, and surfaced, at the tick
\* just run, in a work segment that follows an idle period.
C6_Witness ==
    /\ status.kind = "WorkingSince"
    /\ screen_time > 0
    /\ Len(breaks) >= 2
    /\ breaks[2].last_done = (now - status.at) + screen_time
    /\ am_prompting = Some(Str(breaks[2].prompt))
    /\ prompted = << Str(breaks[2].prompt) >>

\* C7: a break is accepted only at a tick where now - last_prompt >=
\* minimum_time_between_breaks, so that it is at least that long after every
\* earlier accepted break, every end-of-day prompt and the scheduler's start.
C7_BreakDebounce ==
    [][(now' > now /\ LastDone(breaks') # LastDone(breaks)
            /\ status.kind = "WorkingSince") =>
          LET min_gap == config.minimum_time_between_breaks
          IN  /\ now' - last_prompt >= min_gap
              /\ now' - StartInstant >= min_gap
              /\ \A k \in DOMAIN issued.brk : now' - issued.brk[k] >= min_gap
              /\ \A k \in DOMAIN issued.eod : now' - issued.eod[k] >= min_gap]_vars

\* C7 witness: with a debounce longer than just_started, a break was accepted
\* exactly the minimum after the prompt before it.
C7_Witness ==
    /\ config.minimum_time_between_breaks > config.just_started
    /\ prompted # << >>
    /\ \/ /\ Len(issued.brk) >= 2
          /\ issued.brk[Len(issued.brk)] = now
          /\ now - issued.brk[Len(issued.brk) - 1] = config.minimum_time_between_breaks
       \/ /\ issued.eod # << >>
          /\ issued.brk # << >>
          /\ issued.brk[Len(issued.brk)] = now
          /\ now - issued.eod[Len(issued.eod)] = config.minimum_time_between_breaks
\* C8 as stated: at a tick that stays in a work segment whose length this_work
\* is below just_started, no break prompt is issued.
C8_Original ==
    [][(/\ Sampled
        /\ status.kind = "WorkingSince" /\ status' = status
        /\ duration_since(now', status.at) < config.just_started) =>
          ~PromptedBreak' /\ LastDone(breaks') = LastDone(breaks)]_vars

\* C8 amended: at a tick that stays in a work segment whose length this_work
\* is from just_started to good_chunk_of_work (both included), no break prompt
\* is issued; below just_started break prompts are issued.
C8_QuietStretch ==
    [][(/\ Sampled
        /\ status.kind = "WorkingSince" /\ status' = status
        /\ duration_since(now', status.at) >= config.just_started
        /\ duration_since(now', status.at) <= config.good_chunk_of_work) =>
          ~PromptedBreak' /\ LastDone(breaks') = LastDone(breaks)]_vars

\* C8 witness: the tick just run was inside the stretch from just_started to
\* good_chunk_of_work with a break rule due, no prompt pending, no meeting and
\* the debounce over, and has issued no prompt.
C8_Witness ==
    /\ ret = "Ok"
    /\ status.kind = "WorkingSince"
    /\ now - status.at >= config.just_started
    /\ now - status.at <= config.good_chunk_of_work
    /\ now - last_input <= config.max_idle_time_while_working
    /\ \E i \in DOMAIN breaks : check(breaks[i], (now - status.at) + screen_time).ret
    /\ am_prompting = None
    /\ ~InMeeting
    /\ now - last_prompt >= config.minimum_time_between_breaks
    /\ (now - status.at) + screen_time <= config.workday
    /\ prompted = << >>

\* C9: the acknowledgment sets am_prompting to None and, if a prompt was
\* pending, sets status_report to the completion message; it leaves status,
\* screen_time, the breaks and last_prompt alone. With no prompt pending it
\* leaves status_report alone too, so a second acknowledgment changes nothing.
C9_Acknowledge ==
    [][now' = now =>
          /\ am_prompting' = None
          /\ am_prompting # None =>
                status_report' = Str("Well done with the ") \o am_prompting[1] \o Str("!")
          /\ am_prompting = None => status_report' = status_report
          /\ status' = status
          /\ screen_time' = screen_time
          /\ breaks' = breaks
          /\ last_prompt' = last_prompt]_vars

\* C9 witness: a pending prompt has just been acknowledged.
C9_Witness ==
    /\ am_prompting = None
    /\ status_report[1] = "Well done with the "
    /\ commands = << "SHOW_ALL" >>
    /\ \E i \in DOMAIN breaks : breaks[i].last_done > 0

\* C10: a tick whose idle-time query fails returns the error and leaves status,
\* screen_time, the breaks, am_prompting, last_prompt, status_report and
\* latest_update as they were.
C10_IdleQueryFailure ==
    [][(now' > now /\ idle_failed') =>
          /\ ret' = "Err"
          /\ status' = status
          /\ screen_time' = screen_time
          /\ breaks' = breaks
          /\ am_prompting' = am_prompting
          /\ last_prompt' = last_prompt
          /\ status_report' = status_report
          /\ latest_update' = latest_update]_vars

\* C10 witness: the query has failed at a tick at which an idle sample of zero
\* would have closed the idle period.
C10_Witness ==
    /\ idle_failed
    /\ ret = "Err"
    /\ status.kind = "IdleSince"
    /\ \A r \in update(Self, [ok |-> TRUE, t |-> 0], now, Env(now, stdout)) :
          r.self.status = WorkingSince(now)
\* C11: for every Duration d of whole seconds, parse(format(d)) succeeds and is
\* d cut down to whole minutes, so it is less than 60 s below d and is written
\* again as format(d); "2:00" and "2 hours" both parse to 7200 s and are both
\* written again as "2 hours".
C11_RoundTrip ==
    LET two_hours == << "2", " ", "h", "o", "u", "r", "s" >>
    IN  /\ (codec.d >= 0 /\ codec.parsed # << >>) =>
              /\ codec.parsed[1].ret = "Ok"
              /\ ~codec.parsed[1].subsec
              /\ codec.parsed[1].secs = (codec.d \div 60) * 60
              /\ codec.parsed[1].secs <= codec.d
              /\ codec.d - codec.parsed[1].secs < 60
        /\ (codec.d >= 0 /\ codec.again # << >>) => codec.again = codec.text
        /\ (codec.text \in {Some(two_hours), Some(<< "2", ":", "0", "0" >>)}
                /\ codec.parsed # << >>) =>
              /\ codec.parsed[1] = Parsed(7200, FALSE)
              /\ codec.again # << >> => codec.again[1] = two_hours

\* C11 witness: a Duration with seconds beyond its whole minutes and with both
\* hours and minutes was written, parsed and written again.
C11_Witness ==
    /\ codec.d > 3600
    /\ codec.d % 60 # 0
    /\ (codec.d \div 60) % 60 # 0
    /\ codec.parsed # << >>
    /\ codec.again = codec.text
    /\ codec.parsed[1].secs < codec.d

\* The rules that fire in the tick from this state to the next.
Firing ==
    {i \in DOMAIN breaks :
        check(breaks[i], duration_since(now', status.at) + screen_time).ret}

\* The place, among the answers of am_in_meet(), of the one given for rule i
\* in the break loop: every rule that fires asks once.
RuleIdx(i) == GateIdx + Cardinality({j \in Firing : j <= i})

\* C12: a break rule is accepted (its last_done advanced, its prompt made
\* am_prompting) only at a tick that stays in Working status, with no prompt
\* pending when the tick starts, with am_in_meet() answering no before the
\* loop and for the rule, and with the open segment
\* shorter than just_started or longer than good_chunk_of_work. So at a tick
\* in Working status with this_work from just_started to good_chunk_of_work,
\* or with a prompt pending, or in a meeting, no last_done changes and no
\* break prompt replaces am_prompting. No break prompt is issued in Idle status.
C12_AcceptOnlyAtBreakTime ==
    [][(Sampled) =>
          LET this_work == duration_since(now', status.at)
              changed == {i \in DOMAIN breaks :
                            breaks'[i].last_done # breaks[i].last_done}
          IN  /\ PromptedBreak' => status.kind = "WorkingSince"
              /\ (status.kind = "WorkingSince" /\ (changed # {} \/ PromptedBreak')) =>
                    /\ status' = status
                    /\ am_prompting = None
                    /\ Len(in_meeting') >= GateIdx /\ ~in_meeting'[GateIdx]
                    /\ \A i \in changed : ~in_meeting'[RuleIdx(i)]
                    /\ \/ this_work < config.just_started
                       \/ this_work > config.good_chunk_of_work
                    /\ changed # {}
                    /\ \E i \in changed : am_prompting' = Some(Str(breaks[i].prompt))
                    /\ PromptedBreak']_vars

\* C12 witness: a break was accepted at the tick just run, in the first
\* just_started of a work segment.
C12_Witness ==
    /\ ret = "Ok"
    /\ status.kind = "WorkingSince"
    /\ now - status.at < config.just_started
    /\ in_meeting # << >> /\ ~InMeeting
    /\ \E i \in DOMAIN breaks :
          /\ breaks[i].last_done = (now - status.at) + screen_time
          /\ am_prompting = Some(Str(breaks[i].prompt))
          /\ prompted = << Str(breaks[i].prompt) >>

\* The tick from this state to the next ran the break loop: it stayed in
\* Working status, took neither the idle nor the end-of-day branch, and found
\* the segment of a length for breaks, no prompt pending and no meeting.
RanBreakLoop ==
    LET this_work == duration_since(now', status.at)
    IN  /\ Sampled
        /\ status.kind = "WorkingSince" /\ status' = status
        /\ ~PromptedEndOfDay'
        /\ this_work < config.just_started \/ this_work > config.good_chunk_of_work
        /\ am_prompting = None
        /\ Len(in_meeting') >= GateIdx /\ ~in_meeting'[GateIdx]

\* C13: when a break rule fires in the break loop of a tick whose gap since
\* last_prompt is below minimum_time_between_breaks, the rule is postponed: its
\* last_done, am_prompting and last_prompt stay as they were (only
\* status_report tells of the postponement), so the rule still fires at the
\* same and at any larger accumulated work.
C13_PostponedStaysArmed ==
    [][\A i \in DOMAIN breaks :
          LET total == duration_since(now', status.at) + screen_time
          IN  (/\ RanBreakLoop
               /\ check(breaks[i], total).ret
               /\ now' - last_prompt < config.minimum_time_between_breaks) =>
                  /\ breaks'[i].last_done = breaks[i].last_done
                  /\ am_prompting' = am_prompting
                  /\ last_prompt' = last_prompt
                  /\ prompted' = << >>
                  /\ status_report'[1] = "Postponing "
                  /\ \A w \in total..(total + MaxStep) : check(breaks'[i], w).ret]_vars

\* C13 witness: the tick just run postponed a rule that fires, for the time
\* that is left of the debounce.
C13_Witness ==
    /\ ret = "Ok"
    /\ status.kind = "WorkingSince"
    /\ am_prompting = None
    /\ prompted = << >>
    /\ now - last_prompt < config.minimum_time_between_breaks
    /\ \E i \in DOMAIN breaks :
          /\ check(breaks[i], (now - status.at) + screen_time).ret
          /\ status_report = Str("Postponing ") \o Str(breaks[i].prompt) \o Str(" for ")
                \o pretty(config.minimum_time_between_breaks - (now - last_prompt))
                \o Str(".")

\* The rules accepted in the tick from this state to the next.
Accepted ==
    {i \in Firing :
        breaks'[i].last_done = duration_since(now', status.at) + screen_time}

\* C14: when several break rules fire in the same evaluation pass, the prompt
\* that becomes am_prompting is the one of the last accepted rule in rule
\* order, and exactly one prompt is spoken in that tick (none when every rule
\* is postponed).
C14_LastAcceptedWins ==
    [][(RanBreakLoop /\ Cardinality(Firing) >= 2) =>
          IF Accepted = {}
          THEN am_prompting' = None /\ prompted' = << >>
          ELSE LET last == CHOOSE i \in Accepted : \A j \in Accepted : j <= i
               IN  /\ am_prompting' = Some(Str(breaks[last].prompt))
                   /\ prompted' = << Str(breaks[last].prompt) >>]_vars

\* C14 witness: two rules were accepted in the tick just run, and the prompt
\* pending and spoken is the one of the second.
C14_Witness ==
    /\ ret = "Ok"
    /\ status.kind = "WorkingSince"
    /\ last_prompt \in now..clock
    /\ Len(breaks) >= 2
    /\ \A i \in {1, 2} : breaks[i].last_done = (now - status.at) + screen_time
    /\ breaks[1].last_done > breaks[2].after
    /\ breaks[1].prompt # breaks[2].prompt
    /\ am_prompting = Some(Str(breaks[2].prompt))
    /\ prompted = << Str(breaks[2].prompt) >>

\* The instants at which a prompt was issued, end of day or break.
IssuedAt ==
    {issued.eod[k] : k \in DOMAIN issued.eod} \cup {issued.brk[k] : k \in DOMAIN issued.brk}

\* The instant of the last prompt issued.
LastIssued == CHOOSE n \in IssuedAt : \A m \in IssuedAt : m <= n

\* C15: at a tick that stays in Working status with total_work > workday, an
\* end-of-day prompt is issued whenever more than just_started has elapsed
\* since the last prompt was issued, pending prompt or not: a prompt left
\* unacknowledged does not stop the end-of-day prompt from repeating under the
\* timer handler.
C15_EndOfDayRepeats ==
    [][(/\ Sampled
        /\ status.kind = "WorkingSince" /\ status' = status
        /\ duration_since(now', status.at) + screen_time > config.workday
        /\ IssuedAt # {}
        /\ now' - LastIssued > config.just_started) =>
           /\ PromptedEndOfDay'
           /\ am_prompting' # None /\ IsEndOfDay(am_prompting'[1])
           /\ last_prompt' \in now'..clock']_vars

\* C16: last_prompt changes only at a tick that issues a prompt (an end-of-day
\* prompt or an accepted break); handling a timer event while a prompt stays
\* pending and unacknowledged does not move it.
C16_LastPromptOnlyAtPrompt ==
    [][last_prompt' # last_prompt =>
          /\ now' > now
          /\ PromptedEndOfDay' \/ PromptedBreak'
          /\ last_prompt' \in now'..clock']_vars

\* C17: at a tick in IdleSince(start) with idle sample t, if
\* (now - t) - start > max_idle_time_while_working the status becomes
\* WorkingSince(now - t), and the update leaves screen_time, every last_done,
\* am_prompting and last_prompt as they were and speaks nothing, also when
\* t > day_resets_after; if now - t = start the status stays IdleSince(start).
C17_ResumeWork ==
    [][(Sampled /\ status.kind = "IdleSince") =>
          LET t == now' - last_input'
              start_idle == now' - t
              start == status.at
              rs == update(Self, [ok |-> TRUE, t |-> t], now', Env(now', stdout))
          IN  /\ start_idle - start > config.max_idle_time_while_working =>
                    /\ status' = WorkingSince(start_idle)
                    /\ status_report' = Str("You resumed working after a ")
                          \o pretty(start_idle - start) \o Str(" break.")
                    /\ screen_time' = screen_time
                    /\ LastDone(breaks') = LastDone(breaks)
                    /\ am_prompting' = am_prompting
                    /\ prompted' = << >>
                    /\ \A r \in rs : /\ r.self.status = status'
                                     /\ r.self.last_prompt = last_prompt
              /\ start_idle = start => status' = status]_vars

\* C17 witness: work was resumed at the tick just run, with an idle sample
\* above day_resets_after, work on the clock, a break done and a prompt pending.
C17_Witness ==
    /\ ret = "Ok"
    /\ status.kind = "WorkingSince"
    /\ status_report[1] = "You resumed working after a "
    /\ status.at = last_input
    /\ now - last_input > config.day_resets_after
    /\ screen_time > 0
    /\ \E i \in DOMAIN breaks : breaks[i].last_done > 0
    /\ am_prompting # None

\* C18 as stated: with minimum_time_between_breaks > 0 at most one last_done
\* advances per tick: once a rule is accepted in a pass (last_prompt set to the
\* instant then read), every later rule that fires in the pass goes through
\* the cooldown branch, is postponed for the whole of the minimum and keeps
\* its last_done.
C18_Original ==
    [][(Sampled /\ config.minimum_time_between_breaks > 0) =>
          /\ Cardinality({i \in DOMAIN breaks :
                            breaks'[i].last_done > breaks[i].last_done}) <= 1
          /\ (RanBreakLoop /\ Accepted # {}) =>
                LET first == CHOOSE i \in Accepted : \A j \in Accepted : i <= j
                    last == CHOOSE i \in Firing : \A j \in Firing : j <= i
                IN  /\ Accepted = {first}
                    /\ last_prompt' \in now'..clock'
                    /\ \A j \in Firing :
                          j > first =>
                              /\ breaks'[j].last_done = breaks[j].last_done
                              /\ ~in_meeting'[RuleIdx(j)]
                    /\ last # first =>
                          status_report' = Str("Postponing ") \o Str(breaks[last].prompt)
                              \o Str(" for ")
                              \o pretty(config.minimum_time_between_breaks)
                              \o Str(".")]_vars

\* C18 amended: with minimum_time_between_breaks > 0 at most one last_done
\* advances per tick: once a rule is accepted in a pass (last_prompt set to the
\* instant then read), every later rule that fires in the pass keeps its
\* last_done: it is postponed through the meeting branch when am_in_meet(),
\* asked again for it, answers yes, and else through the cooldown branch, for
\* the whole of the minimum.
C18_OneAcceptedPerTick ==
    [][(Sampled /\ config.minimum_time_between_breaks > 0) =>
          /\ Cardinality({i \in DOMAIN breaks :
                            breaks'[i].last_done > breaks[i].last_done}) <= 1
          /\ (RanBreakLoop /\ Accepted # {}) =>
                LET first == CHOOSE i \in Accepted : \A j \in Accepted : i <= j
                    last == CHOOSE i \in Firing : \A j \in Firing : j <= i
                IN  /\ Accepted = {first}
                    /\ last_prompt' \in now'..clock'
                    /\ \A j \in Firing :
                          j > first => breaks'[j].last_done = breaks[j].last_done
                    /\ last # first =>
                          status_report' = Str("Postponing ") \o Str(breaks[last].prompt)
                              \o (IF in_meeting'[RuleIdx(last)]
                                  THEN Str(" while you meet.")
                                  ELSE Str(" for ")
                                        \o pretty(config.minimum_time_between_breaks)
                                        \o Str("."))]_vars

\* C18 witness: in the tick just run the first rule was accepted and the second,
\* which fires too, was postponed because am_in_meet(), asked for it, said yes.
C18_Witness ==
    /\ ret = "Ok"
    /\ config.minimum_time_between_breaks > 0
    /\ status.kind = "WorkingSince"
    /\ last_prompt \in now..clock
    /\ Len(breaks) >= 2
    /\ breaks[1].last_done = (now - status.at) + screen_time
    /\ check(breaks[2], (now - status.at) + screen_time).ret
    /\ am_prompting = Some(Str(breaks[1].prompt))
    /\ prompted = << Str(breaks[1].prompt) >>
    /\ in_meeting[Len(in_meeting)]
    /\ status_report = Str("Postponing ") \o Str(breaks[2].prompt)
          \o Str(" while you meet.")

\* The accumulated work time of the current state: screen_time plus the open
\* work segment, or screen_time alone while Idle.
AccumulatedWork ==
    IF status.kind = "WorkingSince"
    THEN screen_time + duration_since(now, status.at)
    ELSE screen_time

\* No break's last_done is above the accumulated work time.
LastDoneWithinWork == \A i \in DOMAIN breaks : breaks[i].last_done <= AccumulatedWork

\* C19 as stated: in every reachable state each break's last_done is at most the
\* current accumulated work time, also across a Working-to-Idle transition.
C19_Original == LastDoneWithinWork

\* C19 amended: last_done is at most the accumulated work time at the start, and
\* every step keeps it so except a Working-to-Idle transition, which sets
\* screen_time from now - t and may leave less than a last_done accepted since
\* the user's last input.
C19_KeptExceptGoingIdle ==
    /\ LastDoneWithinWork
    /\ [][(/\ LastDoneWithinWork
           /\ ~(status.kind = "WorkingSince" /\ status'.kind = "IdleSince")) =>
              LastDoneWithinWork']_vars

\* C19 witness: a break was accepted, the user went idle from that very
\* instant and has resumed work: last_done is still within the work time.
C19_Witness ==
    /\ ret = "Ok"
    /\ status.kind = "WorkingSince"
    /\ status_report[1] = "You resumed working after a "
    /\ LastDoneWithinWork
    /\ \E i \in DOMAIN breaks :
          breaks[i].last_done > 0 /\ breaks[i].last_done = screen_time

\* C20: with minimum_time_between_breaks > just_started, no break rule is
\* accepted at a Working tick whose total work is above workday: when the gap
\* since last_prompt would pass the debounce of the breaks, the tick issues the
\* end-of-day prompt instead and the break loop does not run.
C20_BreaksStarveAfterWorkday ==
    [][(/\ Sampled
        /\ config.minimum_time_between_breaks > config.just_started
        /\ status.kind = "WorkingSince"
        /\ duration_since(now', status.at) + screen_time > config.workday) =>
           /\ ~PromptedBreak'
           /\ LastDone(breaks') = LastDone(breaks)
           /\ (/\ status' = status
               /\ now' - last_prompt >= config.minimum_time_between_breaks) =>
                  /\ PromptedEndOfDay'
                  /\ am_prompting' # None /\ IsEndOfDay(am_prompting'[1])
                  /\ last_prompt' \in now'..clock']_vars

\* C20 witness: the first prompt of the run is the end-of-day prompt of the tick
\* just run, issued over a break that fires, with the segment long enough for
\* breaks and no meeting.
C20_Witness ==
    /\ ret = "Ok"
    /\ config.minimum_time_between_breaks > config.just_started
    /\ status.kind = "WorkingSince"
    /\ AccumulatedWork > config.workday
    /\ now - status.at > config.good_chunk_of_work
    /\ ~InMeeting
    /\ PromptedEndOfDay
    /\ issued = [eod |-> << now >>, brk |-> << >>]
    /\ \E i \in DOMAIN breaks : check(breaks[i], AccumulatedWork).ret

\* The rules of the configurations with fairness, by their place in the list.
LiveRules == {1, 2}

\* Rule i fires at the accumulated work time of the current state.
Armed(i) == check(breaks[i], AccumulatedWork).ret

\* A time within which a rule that fires is accepted: the segment leaves the
\* stretch without breaks, and the rule waits out a debounce behind an
\* end-of-day prompt and another behind the rule before it.
LiveHorizon ==
    config.good_chunk_of_work + config.just_started + LivePeriod

\* Rule i was accepted at the tick just run: the handler ran lines 229-231
\* for it.
JustAccepted(i) == \E k \in DOMAIN accepted : accepted[k] = i

\* C21: with minimum_time_between_breaks below just_started by more than a tick
\* period, ticks that keep occurring, a user who stays at work, is in no
\* meeting and acknowledges every prompt before the next tick, every break
\* rule that fires is eventually accepted, also once the total work time has
\* passed workday.
C21_ArmedBreakAccepted ==
    \A i \in LiveRules :
        (Armed(i) /\ now + LiveHorizon <= LiveMaxTime) ~> JustAccepted(i)

\* C21 witness: past workday, a rule that was postponed by the debounce at one
\* tick has been accepted at the tick just run.
C21_Witness ==
    /\ ret = "Ok"
    /\ AccumulatedWork > config.workday
    /\ \E i \in LiveRules :
          /\ JustAccepted(i)
          /\ prompted = << Str(breaks[i].prompt) >>
          /\ status_report[1] = "Postponing "
          /\ status_report[2] = breaks[i].prompt
          /\ status_report[3] = " for "

====
